---------------------------- MODULE Spec2Model ----------------------------
(***************************************************************************)
(* A model of libargos' Qt config tree items (libargos/config/qtctis.py):  *)
(* ColorCti and its editor, FontCti and its editor, and PenCti; and of the *)
(* repository tree view (libargos/repo/repotreeview.py).                   *)
(*                                                                         *)
(* One behaviour follows ONE object, a config tree item or a tree view:    *)
(* cls says which class it is.                                             *)
(* Init is the state right after the constructor call (which may have      *)
(* raised); every action is one method call or one GUI event handler.      *)
(*                                                                         *)
(* Strings that the code takes apart (colour names, editor text) are       *)
(* sequences of one-character strings; a pen width is counted in tenths    *)
(* (the width spin box has one decimal).                                   *)
(***************************************************************************)
EXTENDS Integers, Sequences, FiniteSets, TLC

VARIABLES
    cls,            \* the class of the object: "ColorCti", "FontCti", "PenCti",
                    \* "RepoTreeView"
    alive,          \* the constructor returned (it did not raise)
    err,            \* the exception the last call raised, "none" if it returned
    warned,         \* the last call logged a warning (logger.warn)
    last,           \* the last call: [op |-> name, arg |-> its argument]
    result,         \* what the last call returned ("-" when nothing)
    colorData,      \* ColorCti._data         (a QColor)
    colorDefault,   \* ColorCti._defaultData  (a QColor)
    edOpen,         \* an editor of the item is open
    edValue,        \* ColorCtiEditor: lineEditor.text(); FontCtiEditor: "editor_data"
    subs,           \* connections of pickButton.clicked to the editor's pick handler
    fontData,       \* FontCti._data          (a QFont)
    fontDefault,    \* FontCti._defaultData   (a QFont)
    familyIdx,      \* FontCti.familyCti.data         (index into the config values)
    familyDefIdx,   \* FontCti.familyCti.defaultData
    targetFont,     \* the font of the target widget ("unset" before the first setFont)
    setFontCalls,   \* calls of targetWidget.setFont made by the last call
    debugging,      \* libargos.info.DEBUGGING
    sysFamily,      \* QFont().family(): the family of the application's default font
    penData,        \* PenCti._data (BoolCti: the pen is enabled)
    penColor,       \* PenCti.colorCti: [data, defaultData]
    penStyle,       \* PenCti.styleCti: [data, defaultData]  (indices)
    penWidth,       \* PenCti.widthCti: [data, defaultData]  (tenths)
    includeNoneStyle,   \* PenCti constructor parameter
    includeZeroWidth,   \* PenCti constructor parameter
    repoItems,      \* RepoTreeView.model(): the items in the tree, by their index
    currentIndex,   \* RepoTreeView.selectionModel().currentIndex()
    currentItemActionGroupEnabled,  \* RepoTreeView.currentItemActionGroup.isEnabled()
    topLevelItemActionGroupEnabled, \* RepoTreeView.topLevelItemActionGroup.isEnabled()
    openItemActionEnabled,          \* RepoTreeView.openItemAction.isEnabled()
    closeItemActionEnabled          \* RepoTreeView.closeItemAction.isEnabled()

nodeVars   == <<cls, alive>>
callVars   == <<err, warned, last, result>>
colorVars  == <<colorData, colorDefault>>
editorVars == <<edOpen, edValue, subs>>
fontVars   == <<fontData, fontDefault, familyIdx, familyDefIdx, targetFont,
                setFontCalls>>
envVars    == <<debugging, sysFamily>>
penVars    == <<penData, penColor, penStyle, penWidth, includeNoneStyle,
                includeZeroWidth>>
repoVars   == <<repoItems, currentIndex, currentItemActionGroupEnabled,
                topLevelItemActionGroupEnabled, openItemActionEnabled,
                closeItemActionEnabled>>
vars == <<nodeVars, callVars, colorVars, editorVars, fontVars, envVars, penVars,
          repoVars>>

None == "None"          \* Python's None
NoArg == "-"
NoEditor == "closed"    \* edValue while no editor exists

---------------------------------------------------------------------------
(* Characters and hexadecimal digits.                                      *)

LowerLetters == <<"a","b","c","d","e","f","g","h","i","j","k","l","m",
                  "n","o","p","q","r","s","t","u","v","w","x","y","z">>
UpperLetters == <<"A","B","C","D","E","F","G","H","I","J","K","L","M",
                  "N","O","P","Q","R","S","T","U","V","W","X","Y","Z">>
Digits == <<"0","1","2","3","4","5","6","7","8","9">>

IsLower(c) == \E i \in DOMAIN LowerLetters : LowerLetters[i] = c
IsUpper(c) == \E i \in DOMAIN UpperLetters : UpperLetters[i] = c
IsDigit(c) == \E i \in DOMAIN Digits : Digits[i] = c

\* str.upper() / QString::toLower() on one character
UpperChar(c) ==
    IF IsLower(c)
    THEN UpperLetters[CHOOSE i \in DOMAIN LowerLetters : LowerLetters[i] = c]
    ELSE c
LowerChar(c) ==
    IF IsUpper(c)
    THEN LowerLetters[CHOOSE i \in DOMAIN UpperLetters : UpperLetters[i] = c]
    ELSE c
Upper(s) == [i \in DOMAIN s |-> UpperChar(s[i])]
Lower(s) == [i \in DOMAIN s |-> LowerChar(s[i])]

\* h2i of Qt's colour parser: the value of a hex digit, -1 for any other character
HexValue(c) ==
    IF IsDigit(c) THEN (CHOOSE i \in DOMAIN Digits : Digits[i] = c) - 1
    ELSE IF \E i \in 1..6 : LowerLetters[i] = LowerChar(c)
         THEN 9 + (CHOOSE i \in 1..6 : LowerLetters[i] = LowerChar(c))
         ELSE -1
IsHexChar(c) == HexValue(c) >= 0

\* one hex digit of QColor.name(), which is lower case
HexDigit(n) == IF n < 10 THEN Digits[n + 1] ELSE LowerLetters[n - 9]
HexByte(n) == <<HexDigit(n \div 16), HexDigit(n % 16)>>

---------------------------------------------------------------------------
(* QColor: [valid, r, g, b, a], the channels in 0..255.                    *)

RGBA(r, g, b, a) == [valid |-> TRUE, r |-> r, g |-> g, b |-> b, a |-> a]
RGB(r, g, b) == RGBA(r, g, b, 255)
\* QColor(): the invalid colour (it reads as opaque black)
InvalidColor == [valid |-> FALSE, r |-> 0, g |-> 0, b |-> 0, a |-> 255]

\* QColor.name(): "#rrggbb", lower case; the alpha channel is not part of it
QColorName(c) == <<"#">> \o HexByte(c.r) \o HexByte(c.g) \o HexByte(c.b)

\* the colour names of Qt's table that the model uses
NamedColors ==
    ( <<"r","e","d">> :> RGB(255, 0, 0) ) @@
    ( <<"b","l","u","e">> :> RGB(0, 0, 255) ) @@
    ( <<"t","r","a","n","s","p","a","r","e","n","t">> :> RGBA(0, 0, 0, 0) )

\* qt_get_hex_rgb on the digits after the '#': 3, 6, 9 or 12 hex digits
HexRgb(h) ==
    LET n == Len(h)
        allHex == \A i \in 1..n : IsHexChar(h[i])
        two(i) == 16 * HexValue(h[i]) + HexValue(h[i + 1])
    IN  IF ~allHex THEN InvalidColor
        ELSE IF n = 3  THEN RGB(17 * HexValue(h[1]), 17 * HexValue(h[2]),
                                17 * HexValue(h[3]))
        ELSE IF n = 6  THEN RGB(two(1), two(3), two(5))
        ELSE IF n = 9  THEN RGB(two(1), two(4), two(7))
        ELSE IF n = 12 THEN RGB(two(1), two(5), two(9))
        ELSE InvalidColor

\* QColor(str), that is QColor::setNamedColor
QColorFromString(s) ==
    IF Len(s) = 0 THEN InvalidColor
    ELSE IF s[1] = "#" THEN HexRgb(Tail(s))
    ELSE IF Lower(s) \in DOMAIN NamedColors THEN NamedColors[Lower(s)]
    ELSE InvalidColor

\* What the code passes to QtGui.QColor(...): a string or a QColor (copied)
StrSpec(s) == [kind |-> "str", s |-> s, c |-> InvalidColor]
ColorSpec(c) == [kind |-> "QColor", s |-> <<>>, c |-> c]
QColor(data) == IF data.kind = "str" THEN QColorFromString(data.s) ELSE data.c


---------------------------------------------------------------------------
(* ColorCti (and the parts of AbstractCti it relies on).                   *)

\* {}: the dictionary without keys
EmptyDict == [k \in {} |-> NoArg]

\* A call's outcome: it raised, or it returned a value
Raised(exc)   == [raised |-> TRUE,  exc |-> exc,    value |-> NoArg]
Returned(v)   == [raised |-> FALSE, exc |-> "none", value |-> v]

\* ColorCti._enforceDataType without the isValid check
ColorCti_enforceDataType_unchecked(data) == Returned(QColor(data))

\* ColorCti._enforceDataType
ColorCti_enforceDataType(data) ==
    LET qColor == QColor(data)
    IN  IF ~qColor.valid THEN Raised("ValueError") ELSE Returned(qColor)

\* ColorCti._dataToString
ColorCti_dataToString(data) == Upper(QColorName(data))

\* AbstractCti.__init__: the default is enforced and becomes the data too
AbstractCti_init(enforced) ==
    IF enforced.raised THEN enforced
    ELSE Returned([data |-> enforced.value, defaultData |-> enforced.value])

\* AbstractCti's data / defaultData setters: self._data = self._enforceDataType(data).
\* The old value stays when the enforcement raises.
AbstractCti_assign(old, enforced) ==
    IF enforced.raised THEN old ELSE enforced.value

\* ColorCti._nodeGetNonDefaultsDict without `if self.data != self.defaultData`
ColorCti_nodeGetNonDefaultsDict_always(data, defaultData) ==
    "data" :> QColorName(data)

\* ColorCti._nodeGetNonDefaultsDict: a dictionary is a function on its keys
ColorCti_nodeGetNonDefaultsDict(data, defaultData) ==
    IF data # defaultData THEN "data" :> QColorName(data) ELSE EmptyDict

\* ColorCti._nodeSetValuesFromDict: the outcome of the call, its value the new data
ColorCti_nodeSetValuesFromDict(data, dct) ==
    IF "data" \in DOMAIN dct
    THEN LET e == ColorCti_enforceDataType(ColorSpec(QColor(StrSpec(dct["data"]))))
         IN  IF e.raised THEN e ELSE Returned(AbstractCti_assign(data, e))
    ELSE Returned(data)

---------------------------------------------------------------------------
(* ColorCtiEditor.                                                         *)

\* QRegExp(r'#?[0-9A-F]{6}', Qt.CaseInsensitive).exactMatch(text)
ColorRegExpExactMatch(text) ==
    LET digits == IF Len(text) > 0 /\ text[1] = "#" THEN Tail(text) ELSE text
    IN  /\ Len(digits) = 6
        /\ \A i \in 1..6 : IsHexChar(digits[i])

\* the validator's state taken as good when it is Intermediate too: the text is
\* the beginning of a match
ColorCtiEditor_acceptable_intermediate(text) ==
    LET digits == IF Len(text) > 0 /\ text[1] = "#" THEN Tail(text) ELSE text
    IN  /\ Len(digits) <= 6
        /\ \A i \in 1..Len(digits) : IsHexChar(digits[i])

\* validator.validate(text, 0)[0] == QtGui.QValidator.Acceptable
ColorCtiEditor_acceptable(text) == ColorRegExpExactMatch(text)

\* ColorCtiEditor.setData: the text the line editor gets
ColorCtiEditor_setData(qColor) == Upper(QColorName(qColor))

\* ColorCtiEditor.getData
ColorCtiEditor_getData(lineText) ==
    LET text == IF Len(lineText) > 0 /\ lineText[1] = "#"
                THEN lineText ELSE <<"#">> \o lineText
    IN  IF ~ColorCtiEditor_acceptable(text)
        THEN Raised("InvalidInputError")
        ELSE Returned(QColor(StrSpec(text)))

\* ColorCtiEditor.__init__: pickButton.clicked.connect(self.openColorDialog)
ColorCtiEditor_init(connections) == connections + 1

\* ColorCtiEditor.finalize without the disconnect
ColorCtiEditor_finalize_keeps(connections) == connections

\* ColorCtiEditor.finalize: clicked.disconnect(self.openColorDialog)
ColorCtiEditor_finalize(connections) == connections - 1

\* ColorCtiEditor.openColorDialog: the colour the dialog starts from
ColorCtiEditor_currentColor(lineText, ctiData) ==
    LET g == ColorCtiEditor_getData(lineText)
    IN  IF g.raised THEN ctiData ELSE g.value

\* ColorCtiEditor.openColorDialog setting and committing whatever the dialog returns
ColorCtiEditor_dialogAccepted_always(qColor) == TRUE

\* ColorCtiEditor.openColorDialog: `if qColor.isValid():` set and commit
ColorCtiEditor_dialogAccepted(qColor) == qColor.valid


---------------------------------------------------------------------------
(* The values the environment hands to a ColorCti.                         *)

Unused == "unused"      \* a variable of another class than the item's

RedHalf == RGBA(255, 0, 0, 128)         \* red, half transparent

\* colour specifications: arguments of ColorCti(...), .data = and .defaultData =
ColorInputs ==
    { StrSpec(<<"#","F","F","0","0","0","0">>),     \* '#FF0000'
      StrSpec(<<"#","0","0","f">>),                 \* '#00f'
      StrSpec(<<"R","e","d">>),                     \* 'Red'
      StrSpec(<<"t","r","a","n","s","p","a","r","e","n","t">>),
      StrSpec(<<>>),                                \* '', ColorCti's default
      StrSpec(<<"#","G","G","0","0","0","0">>),     \* '#GG0000'
      StrSpec(<<"#","F","F","0","0">>),             \* '#FF00'
      StrSpec(<<"n","o">>),                         \* 'no'
      ColorSpec(RedHalf),
      ColorSpec(RGB(0, 255, 0)),
      ColorSpec(InvalidColor) }

\* persistence dictionaries handed to ColorCti._nodeSetValuesFromDict
ColorDicts ==
    { EmptyDict,
      "data" :> <<"#","0","0","0","0","f","f">>,
      "data" :> <<"#","f","f","0","0","0","0">>,
      "data" :> <<"#","f","f","0","0">>,
      "data" :> <<>>,
      "expanded" :> <<"1">>,
      ("expanded" :> <<"1">>) @@ ("data" :> <<"#","0","0","f","f","0","0">>) }

\* texts the user leaves in the line editor
EditorTexts ==
    { <<>>,
      <<"#">>,
      <<"#","F","F","0","0">>,
      <<"#","0","0","F">>,
      <<"0","0","f","f","0","0">>,
      <<"#","0","0","F","f","0","0">>,
      <<"#","F","F","0","0","0","0","0">>,
      <<"#","F","F","0","0","0","G">>,
      <<"r","e","d">>,
      <<"#","#","0","0","0","0","f","f">> }

\* what QColorDialog.getColor returns: an opaque colour, or QColor() when dismissed
ColorDialogResults == { InvalidColor, RGB(255, 0, 0), RGB(18, 171, 239) }

---------------------------------------------------------------------------
(* The constructor call and the actions on a ColorCti.                     *)

\* a config tree item has no tree view
NoRepoTreeView ==
    /\ repoItems = Unused /\ currentIndex = Unused
    /\ currentItemActionGroupEnabled = FALSE
    /\ topLevelItemActionGroupEnabled = FALSE
    /\ openItemActionEnabled = FALSE
    /\ closeItemActionEnabled = FALSE

Call(op, arg, exc, w, r) ==
    /\ last' = [op |-> op, arg |-> arg]
    /\ err' = exc
    /\ warned' = w
    /\ result' = r

\* ColorCti('color', defaultData=spec)
InitColor ==
    \E spec \in ColorInputs :
        LET c == AbstractCti_init(ColorCti_enforceDataType(spec))
        IN  /\ cls = "ColorCti"
            /\ alive = ~c.raised
            /\ err = c.exc
            /\ warned = FALSE
            /\ last = [op |-> "init", arg |-> spec]
            /\ result = NoArg
            /\ colorData = IF c.raised THEN InvalidColor ELSE c.value.data
            /\ colorDefault = IF c.raised THEN InvalidColor ELSE c.value.defaultData
            /\ edOpen = FALSE /\ edValue = NoEditor /\ subs = 0
            /\ fontData = Unused /\ fontDefault = Unused
            /\ familyIdx = 0 /\ familyDefIdx = 0
            /\ targetFont = Unused /\ setFontCalls = 0
            /\ debugging = FALSE /\ sysFamily = Unused
            /\ NoRepoTreeView
            /\ penData = FALSE /\ penColor = Unused /\ penStyle = Unused
            /\ penWidth = Unused
            /\ includeNoneStyle = FALSE /\ includeZeroWidth = FALSE

otherThanColor == <<nodeVars, fontVars, envVars, penVars, repoVars>>

\* cti.data = spec
ColorSetData(spec) ==
    /\ cls = "ColorCti" /\ alive /\ ~edOpen
    /\ LET e == ColorCti_enforceDataType(spec)
       IN  /\ colorData' = AbstractCti_assign(colorData, e)
           /\ Call("setData", spec, e.exc, FALSE, NoArg)
    /\ UNCHANGED <<colorDefault, editorVars, otherThanColor>>

\* cti.defaultData = spec
ColorSetDefaultData(spec) ==
    /\ cls = "ColorCti" /\ alive /\ ~edOpen
    /\ LET e == ColorCti_enforceDataType(spec)
       IN  /\ colorDefault' = AbstractCti_assign(colorDefault, e)
           /\ Call("setDefaultData", spec, e.exc, FALSE, NoArg)
    /\ UNCHANGED <<colorData, editorVars, otherThanColor>>

\* cti._nodeSetValuesFromDict(dct)
ColorLoad(dct) ==
    /\ cls = "ColorCti" /\ alive /\ ~edOpen
    /\ LET r == ColorCti_nodeSetValuesFromDict(colorData, dct)
       IN  /\ colorData' = IF r.raised THEN colorData ELSE r.value
           /\ Call("load", dct, r.exc, FALSE, NoArg)
    /\ UNCHANGED <<colorDefault, editorVars, otherThanColor>>

\* cti._nodeGetNonDefaultsDict()
ColorSave ==
    /\ cls = "ColorCti" /\ alive /\ ~edOpen
    /\ Call("save", NoArg, "none", FALSE,
            ColorCti_nodeGetNonDefaultsDict(colorData, colorDefault))
    /\ UNCHANGED <<colorVars, editorVars, otherThanColor>>


---------------------------------------------------------------------------
(* The editing session of a ColorCti: Closed -> Open -> Committed or       *)
(* Cancelled -> Closed.  Opening, committing and closing are the           *)
(* delegate's and AbstractCtiEditor's; the editor's own methods are above. *)

\* Committing the editor's value: getData, then the item's data setter. The editor
\* stays open when getData raises InvalidInputError or the value is refused.
ColorCommitOutcome(lineText, ctiData) ==
    LET g == ColorCtiEditor_getData(lineText)
        e == IF g.raised THEN g ELSE ColorCti_enforceDataType(ColorSpec(g.value))
    IN  [committed |-> ~e.raised, exc |-> e.exc,
         data |-> AbstractCti_assign(ctiData, e)]

\* The user starts editing: createEditor, then the editor is seeded with cti.data
ColorOpenEditor ==
    /\ cls = "ColorCti" /\ alive /\ ~edOpen
    /\ edOpen' = TRUE
    /\ subs' = ColorCtiEditor_init(subs)
    /\ edValue' = ColorCtiEditor_setData(colorData)
    /\ Call("open", NoArg, "none", FALSE, NoArg)
    /\ UNCHANGED <<colorVars, otherThanColor>>

\* The user changes the text of the line editor
ColorEditText(text) ==
    /\ cls = "ColorCti" /\ edOpen
    /\ edValue' = text
    /\ Call("edit", text, "none", FALSE, NoArg)
    /\ UNCHANGED <<edOpen, subs, colorVars, otherThanColor>>

\* editor.getData()
ColorGetData ==
    /\ cls = "ColorCti" /\ edOpen
    /\ LET g == ColorCtiEditor_getData(edValue)
       IN  Call("getData", edValue, g.exc, FALSE, g.value)
    /\ UNCHANGED <<editorVars, colorVars, otherThanColor>>

\* The user presses Enter: commitAndClose
ColorCommit ==
    /\ cls = "ColorCti" /\ edOpen
    /\ LET c == ColorCommitOutcome(edValue, colorData)
       IN  /\ colorData' = c.data
           /\ edOpen' = ~c.committed
           /\ subs' = IF c.committed THEN ColorCtiEditor_finalize(subs) ELSE subs
           /\ edValue' = IF c.committed THEN NoEditor ELSE edValue
           /\ Call("commit", edValue, c.exc, FALSE, NoArg)
    /\ UNCHANGED <<colorDefault, otherThanColor>>

\* The user presses Escape: the editor is finalized without a commit
ColorCancel ==
    /\ cls = "ColorCti" /\ edOpen
    /\ edOpen' = FALSE
    /\ subs' = ColorCtiEditor_finalize(subs)
    /\ edValue' = NoEditor
    /\ Call("cancel", NoArg, "none", FALSE, NoArg)
    /\ UNCHANGED <<colorVars, otherThanColor>>

\* The view closes the editor (focus lost, the tree is torn down)
ColorClose ==
    /\ cls = "ColorCti" /\ edOpen
    /\ edOpen' = FALSE
    /\ subs' = ColorCtiEditor_finalize(subs)
    /\ edValue' = NoEditor
    /\ Call("close", NoArg, "none", FALSE, NoArg)
    /\ UNCHANGED <<colorVars, otherThanColor>>

\* pickButton.clicked reaches ColorCtiEditor.openColorDialog, the dialog returns
\* qColor. The handler runs only while its connection exists. result is the text
\* the line editor holds when the handler is through with it.
ColorPick(qColor) ==
    /\ cls = "ColorCti" /\ subs > 0
    /\ LET current == ColorCtiEditor_currentColor(edValue, colorData)
           accepted == ColorCtiEditor_dialogAccepted(qColor)
           text == IF accepted THEN ColorCtiEditor_setData(qColor) ELSE edValue
           c == ColorCommitOutcome(text, colorData)
           closes == accepted /\ c.committed
       IN  /\ edValue' = IF closes THEN NoEditor ELSE text
           /\ colorData' = IF accepted THEN c.data ELSE colorData
           /\ edOpen' = IF closes THEN FALSE ELSE edOpen
           /\ subs' = IF closes THEN ColorCtiEditor_finalize(subs) ELSE subs
           /\ Call("pick", [seed |-> current, chosen |-> qColor],
                   IF accepted THEN c.exc ELSE "none", FALSE, text)
    /\ UNCHANGED <<colorDefault, otherThanColor>>

NextColor ==
    \/ \E spec \in ColorInputs : ColorSetData(spec)
    \/ \E spec \in ColorInputs : ColorSetDefaultData(spec)
    \/ \E dct \in ColorDicts : ColorLoad(dct)
    \/ ColorSave
    \/ ColorOpenEditor
    \/ \E text \in EditorTexts : ColorEditText(text)
    \/ ColorGetData
    \/ ColorCommit
    \/ ColorCancel
    \/ ColorClose
    \/ \E qColor \in ColorDialogResults : ColorPick(qColor)

---------------------------------------------------------------------------
(* QFont: [family, pointSize, weight].  A font's string form is the list   *)
(* of its comma separated fields, every field a string.                    *)

QFontOf(family, pointSize, weight) ==
    [family |-> family, pointSize |-> pointSize, weight |-> weight]

\* the numbers that occur in the font strings of the model
NumberStrings ==
    ("-1" :> -1) @@ ("0" :> 0) @@ ("5" :> 5) @@ ("9" :> 9) @@ ("10" :> 10) @@
    ("12" :> 12) @@ ("50" :> 50) @@ ("75" :> 75)
\* QString::toInt / toDouble: 0 when the string is no number
ToNumber(str) == IF str \in DOMAIN NumberStrings THEN NumberStrings[str] ELSE 0
NumberToString(n) == CHOOSE str \in DOMAIN NumberStrings : NumberStrings[str] = n

Min(a, b) == IF a < b THEN a ELSE b
Max(a, b) == IF a > b THEN a ELSE b

\* QFont(): the application's default font, its family the system default family
DefaultQFont(sys) == QFontOf(sys, 9, 50)

\* QFont(data): a copy of a QFont, or the default font with the family of a string
FontObj(f) == [kind |-> "QFont", f |-> f, family |-> ""]
FontStr(family) == [kind |-> "str", f |-> DefaultQFont(""), family |-> family]
FontNone == [kind |-> "None", f |-> DefaultQFont(""), family |-> ""]
QFont(data, sys) ==
    IF data.kind = "str"
    THEN [DefaultQFont(sys) EXCEPT !.family = data.family]
    ELSE data.f

\* QFont.toString(): family, pointSizeF, pixelSize, styleHint, weight, style,
\* underline, strikeOut, fixedPitch, rawMode
QFontToString(f) ==
    <<f.family, NumberToString(f.pointSize), "-1", "5", NumberToString(f.weight),
      "0", "0", "0", "0", "0">>

\* QFont.fromString(descrip) on font f: [success, font]
QFontFromString(f, l) ==
    LET count == Len(l)
    IN  IF count = 0 \/ (count > 2 /\ count < 9) \/ count > 11
        THEN [success |-> FALSE, font |-> f]
        ELSE LET f1 == [f EXCEPT !.family = l[1]]
                 f2 == IF count > 1 /\ ToNumber(l[2]) > 0
                       THEN [f1 EXCEPT !.pointSize = ToNumber(l[2])] ELSE f1
                 f3 == IF count = 9
                       THEN [f2 EXCEPT !.weight = Max(Min(99, ToNumber(l[4])), 0)]
                       ELSE IF count = 10
                       THEN [f2 EXCEPT !.weight = Max(Min(99, ToNumber(l[5])), 0)]
                       ELSE f2
             IN  [success |-> TRUE, font |-> f3]

---------------------------------------------------------------------------
(* FontCti.                                                                *)

\* QtGui.QFontDatabase().families(): the font families of the environment
FontFamilies == <<"Arial", "Courier">>

\* FontCti.__init__: configValues = [''] + QtGui.QFontDatabase().families()
FamilyConfigValues == <<"">> \o FontFamilies

\* ChoiceCti.configValue of the family child; the indices count from 0 as in Python
FamilyConfigValue(idx) == FamilyConfigValues[idx + 1]
FamilyIndices == 0 .. (Len(FamilyConfigValues) - 1)

\* ChoiceCti("family", configValues=...): defaultData is left at ChoiceCti's default
ChoiceCti_defaultData == 0

\* FontCti._enforceDataType
FontCti_enforceDataType(data, sys) == QFont(data, sys)

\* list.index(x): the first position of x, counted from 0
ListIndex(list, x) == (CHOOSE i \in 1..Len(list) :
                          /\ list[i] = x
                          /\ \A j \in 1..(i - 1) : list[j] # x) - 1
ListHas(list, x) == \E i \in 1..Len(list) : list[i] = x

\* The data and defaultData setters of FontCti: the index the family child gets,
\* and whether the warning is logged
FontCti_familyIndex(family) ==
    IF ListHas(FamilyConfigValues, family)
    THEN [idx |-> ListIndex(FamilyConfigValues, family), warn |-> FALSE]
    ELSE [idx |-> ListIndex(FamilyConfigValues, ""), warn |-> TRUE]

\* FontCti.__init__: the item and its family child after construction
FontCti_init(defaultData, sys) ==
    LET font == FontCti_enforceDataType(
                    IF defaultData.kind = "None" THEN FontObj(DefaultQFont(sys))
                    ELSE defaultData, sys)
    IN  [data |-> font, defaultData |-> font,
         familyData |-> ChoiceCti_defaultData,
         familyDefaultData |-> ChoiceCti_defaultData]

\* FontCti._updateTargetFromNode without the fall back to the default family
FontCti_targetFamily_noFallback(choice, sys) == choice

\* FontCti._updateTargetFromNode: the family the font gets
FontCti_targetFamily(choice, sys) == IF choice # "" THEN choice ELSE sys

\* FontCti._nodeGetNonDefaultsDict
FontCti_nodeGetNonDefaultsDict(data, defaultData) ==
    IF data # defaultData THEN "data" :> QFontToString(data) ELSE EmptyDict

\* FontCti._nodeSetValuesFromDict with dct.get('data', '') for `if 'data' in dct`
FontCti_nodeSetValuesFromDict_noKeyTest(dct, sys, dbg) ==
    LET text == IF "data" \in DOMAIN dct THEN dct["data"] ELSE <<>>
        p == QFontFromString(DefaultQFont(sys), text)
    IN  IF ~p.success /\ dbg
        THEN [raised |-> TRUE, exc |-> "ValueError", value |-> NoArg,
              assigns |-> FALSE, warn |-> TRUE]
        ELSE [raised |-> FALSE, exc |-> "none", value |-> p.font,
              assigns |-> TRUE, warn |-> ~p.success]

\* FontCti._nodeSetValuesFromDict: the outcome, its value the font handed to the
\* data setter (NoArg when the dictionary has no 'data')
FontCti_nodeSetValuesFromDict(dct, sys, dbg) ==
    IF "data" \in DOMAIN dct
    THEN LET p == QFontFromString(DefaultQFont(sys), dct["data"])
         IN  IF ~p.success /\ dbg
             THEN [raised |-> TRUE, exc |-> "ValueError", value |-> NoArg,
                   assigns |-> FALSE, warn |-> TRUE]
             ELSE [raised |-> FALSE, exc |-> "none", value |-> p.font,
                   assigns |-> TRUE, warn |-> ~p.success]
    ELSE [raised |-> FALSE, exc |-> "none", value |-> NoArg,
          assigns |-> FALSE, warn |-> FALSE]

\* FontCtiEditor.__init__: pickButton.clicked.connect(self.execFontDialog)
FontCtiEditor_init(connections) == connections + 1

\* FontCtiEditor.finalize: clicked.disconnect(self.execFontDialog)
FontCtiEditor_finalize(connections) == connections - 1

\* FontCtiEditor.setData / getData: the "editor_data" property of the pick button
FontCtiEditor_setData(data) == data
FontCtiEditor_getData(editorData) == editorData

\* FontCtiEditor.execFontDialog: the font handed to setData before commitAndClose
FontCtiEditor_dialogFont(currentFont, newFont, ok) ==
    IF ok THEN newFont ELSE currentFont

---------------------------------------------------------------------------
(* The values the environment hands to a FontCti.                          *)

\* QFont().family(): a family of the data base, or an alias that is not in it
SysFamilies == {"Courier", "Sans"}

\* fonts assigned to data and defaultData
FontInputs ==
    { FontObj(QFontOf("Arial", 12, 75)),
      FontObj(QFontOf("Zapf", 9, 50)),
      FontStr("Courier") }

\* persistence dictionaries handed to FontCti._nodeSetValuesFromDict
FontDicts ==
    { EmptyDict,
      "data" :> QFontToString(QFontOf("Arial", 12, 75)),
      "data" :> <<"Zapf", "9">>,
      "data" :> <<"Arial", "12", "-1">>,
      "expanded" :> <<"1">> }

\* what QFontDialog.getFont returns when the user accepts
FontDialogResults == { QFontOf("Courier", 12, 75), QFontOf("Zapf", 9, 50) }

---------------------------------------------------------------------------
(* The constructor call and the actions on a FontCti.                      *)

\* FontCti(targetWidget, defaultData=spec)
InitFont ==
    \E spec \in FontInputs \cup {FontNone}, sys \in SysFamilies, dbg \in BOOLEAN :
        LET c == FontCti_init(spec, sys)
        IN  /\ cls = "FontCti"
            /\ alive = TRUE
            /\ err = "none"
            /\ warned = FALSE
            /\ last = [op |-> "init", arg |-> spec]
            /\ result = NoArg
            /\ colorData = InvalidColor /\ colorDefault = InvalidColor
            /\ edOpen = FALSE /\ edValue = NoEditor /\ subs = 0
            /\ fontData = c.data /\ fontDefault = c.defaultData
            /\ familyIdx = c.familyData /\ familyDefIdx = c.familyDefaultData
            /\ targetFont = DefaultQFont(sys) /\ setFontCalls = 0
            /\ debugging = dbg /\ sysFamily = sys
            /\ NoRepoTreeView
            /\ penData = FALSE /\ penColor = Unused /\ penStyle = Unused
            /\ penWidth = Unused
            /\ includeNoneStyle = FALSE /\ includeZeroWidth = FALSE

otherThanFont == <<nodeVars, colorVars, envVars, penVars, repoVars>>

\* cti.data = spec
FontSetData(spec) ==
    /\ cls = "FontCti" /\ ~edOpen
    /\ LET font == FontCti_enforceDataType(spec, sysFamily)
           i == FontCti_familyIndex(font.family)
       IN  /\ fontData' = font
           /\ familyIdx' = i.idx
           /\ Call("setData", spec, "none", i.warn, NoArg)
    /\ setFontCalls' = 0
    /\ UNCHANGED <<fontDefault, familyDefIdx, targetFont, editorVars, otherThanFont>>

\* cti.defaultData = spec
FontSetDefaultData(spec) ==
    /\ cls = "FontCti" /\ ~edOpen
    /\ LET font == FontCti_enforceDataType(spec, sysFamily)
           i == FontCti_familyIndex(font.family)
       IN  /\ fontDefault' = font
           /\ familyDefIdx' = i.idx
           /\ Call("setDefaultData", spec, "none", i.warn, NoArg)
    /\ setFontCalls' = 0
    /\ UNCHANGED <<fontData, familyIdx, targetFont, editorVars, otherThanFont>>

\* The user picks a family in the family child: familyCti.data = idx
FontSetFamily(idx) ==
    /\ cls = "FontCti" /\ ~edOpen
    /\ familyIdx' = idx
    /\ Call("setFamily", idx, "none", FALSE, NoArg)
    /\ setFontCalls' = 0
    /\ UNCHANGED <<fontData, fontDefault, familyDefIdx, targetFont, editorVars,
                   otherThanFont>>

\* cti._updateTargetFromNode(): `font = self.data` is the item's own QFont object,
\* so font.setFamily changes the family of the stored data as well
FontSync ==
    /\ cls = "FontCti" /\ ~edOpen
    /\ LET font == [fontData EXCEPT !.family =
                        FontCti_targetFamily(FamilyConfigValue(familyIdx), sysFamily)]
       IN  /\ fontData' = font
           /\ targetFont' = font
    /\ setFontCalls' = 1
    /\ Call("sync", NoArg, "none", FALSE, NoArg)
    /\ UNCHANGED <<fontDefault, familyIdx, familyDefIdx, editorVars, otherThanFont>>

\* cti._nodeSetValuesFromDict(dct)
FontLoad(dct) ==
    /\ cls = "FontCti" /\ ~edOpen
    /\ LET r == FontCti_nodeSetValuesFromDict(dct, sysFamily, debugging)
           font == IF r.assigns
                   THEN FontCti_enforceDataType(FontObj(r.value), sysFamily)
                   ELSE fontData
           i == FontCti_familyIndex(font.family)
       IN  /\ fontData' = font
           /\ familyIdx' = IF r.assigns THEN i.idx ELSE familyIdx
           /\ Call("load", dct, r.exc, r.warn \/ (r.assigns /\ i.warn), NoArg)
    /\ setFontCalls' = 0
    /\ UNCHANGED <<fontDefault, familyDefIdx, targetFont, editorVars, otherThanFont>>

\* cti._nodeGetNonDefaultsDict()
FontSave ==
    /\ cls = "FontCti" /\ ~edOpen
    /\ Call("save", NoArg, "none", FALSE,
            FontCti_nodeGetNonDefaultsDict(fontData, fontDefault))
    /\ setFontCalls' = 0
    /\ UNCHANGED <<fontData, fontDefault, familyIdx, familyDefIdx, targetFont,
                   editorVars, otherThanFont>>

---------------------------------------------------------------------------
(* The editing session of a FontCti.                                       *)

\* The user starts editing: createEditor, then the editor is seeded with cti.data
FontOpenEditor ==
    /\ cls = "FontCti" /\ ~edOpen
    /\ edOpen' = TRUE
    /\ subs' = FontCtiEditor_init(subs)
    /\ edValue' = FontCtiEditor_setData(fontData)
    /\ Call("open", NoArg, "none", FALSE, NoArg)
    /\ setFontCalls' = 0
    /\ UNCHANGED <<fontData, fontDefault, familyIdx, familyDefIdx, targetFont,
                   otherThanFont>>

\* commitAndClose with the editor holding editorData: cti.data = editor.getData(),
\* then the editor is finalized. result is the value the editor held.
FontCommitAndClose(op, arg, editorData) ==
    LET font == FontCti_enforceDataType(FontObj(FontCtiEditor_getData(editorData)),
                                        sysFamily)
        i == FontCti_familyIndex(font.family)
    IN  /\ edValue' = NoEditor
        /\ fontData' = font
        /\ familyIdx' = i.idx
        /\ edOpen' = FALSE
        /\ subs' = FontCtiEditor_finalize(subs)
        /\ Call(op, arg, "none", i.warn, editorData)
        /\ setFontCalls' = 0
        /\ UNCHANGED <<fontDefault, familyDefIdx, targetFont, otherThanFont>>

\* The user presses Enter
FontCommit ==
    /\ cls = "FontCti" /\ edOpen
    /\ FontCommitAndClose("commit", NoArg, edValue)

\* The user presses Escape: the editor is finalized without a commit
FontCancel ==
    /\ cls = "FontCti" /\ edOpen
    /\ edOpen' = FALSE
    /\ subs' = FontCtiEditor_finalize(subs)
    /\ Call("cancel", NoArg, "none", FALSE, NoArg)
    /\ setFontCalls' = 0
    /\ edValue' = NoEditor
    /\ UNCHANGED <<fontData, fontDefault, familyIdx, familyDefIdx,
                   targetFont, otherThanFont>>

\* The view closes the editor
FontClose ==
    /\ cls = "FontCti" /\ edOpen
    /\ edOpen' = FALSE
    /\ subs' = FontCtiEditor_finalize(subs)
    /\ Call("close", NoArg, "none", FALSE, NoArg)
    /\ setFontCalls' = 0
    /\ edValue' = NoEditor
    /\ UNCHANGED <<fontData, fontDefault, familyIdx, familyDefIdx,
                   targetFont, otherThanFont>>

\* pickButton.clicked reaches FontCtiEditor.execFontDialog; QFontDialog.getFont
\* returns (newFont, ok), the initial font when the user dismisses the dialog
FontPick(newFont, ok) ==
    /\ cls = "FontCti" /\ subs > 0
    /\ LET currentFont == FontCtiEditor_getData(edValue)
       IN  /\ ~ok => newFont = currentFont
           /\ FontCommitAndClose("pick", [font |-> newFont, ok |-> ok],
                  FontCtiEditor_setData(
                      FontCtiEditor_dialogFont(currentFont, newFont, ok)))

NextFont ==
    \/ \E spec \in FontInputs : FontSetData(spec)
    \/ \E spec \in FontInputs : FontSetDefaultData(spec)
    \/ \E idx \in FamilyIndices : FontSetFamily(idx)
    \/ FontSync
    \/ \E dct \in FontDicts : FontLoad(dct)
    \/ FontSave
    \/ FontOpenEditor
    \/ FontCommit
    \/ FontCancel
    \/ FontClose
    \/ \E ok \in BOOLEAN :
         \E newFont \in (IF ok THEN FontDialogResults ELSE {edValue}) :
            FontPick(newFont, ok)

---------------------------------------------------------------------------
(* QPen and PenCti.  A value that is a QPen or None is a record whose      *)
(* field none says which.                                                  *)

QPenOf(color, style, width, cosmetic) ==
    [none |-> FALSE, color |-> color, style |-> style, width |-> width,
     cosmetic |-> cosmetic]
NonePen == [none |-> TRUE, color |-> InvalidColor, style |-> None, width |-> 0,
            cosmetic |-> FALSE]
\* QtGui.QPen(): "a black solid pen of width 1.0", not marked cosmetic
DefaultQPen == QPenOf(RGB(0, 0, 0), "SolidLine", 10, FALSE)

\* an optional width argument: Nothing is Python's None
Nothing == <<>>
Some(w) == <<w>>

PEN_STYLE_CONFIG_VALUES ==
    <<"SolidLine", "DashLine", "DotLine", "DashDotLine", "DashDotDotLine">>

\* createPenStyleCti: the config values of the style child
StyleConfigValues(includeNone) ==
    IF includeNone THEN <<None>> \o PEN_STYLE_CONFIG_VALUES
    ELSE PEN_STYLE_CONFIG_VALUES

\* ChoiceCti.configValue of the style child
StyleConfigValue(idx, includeNone) == StyleConfigValues(includeNone)[idx + 1]
StyleIndices(includeNone) == 0 .. (Len(StyleConfigValues(includeNone)) - 1)

\* createPenWidthCti: FloatCti's minValue and maxValue, in tenths
PenWidthMin(includeZero) == IF includeZero THEN 0 ELSE 1
PenWidthMax == 1000

\* PenCti.__init__ without `+ int(includeNoneStyle)`
PenCti_init_noShift(qPen, includeNone) ==
    IF ~qPen.color.valid \/ ~ListHas(PEN_STYLE_CONFIG_VALUES, qPen.style)
    THEN Raised("ValueError")
    ELSE LET defaultIndex == ListIndex(PEN_STYLE_CONFIG_VALUES, qPen.style)
         IN  Returned([color |-> [data |-> qPen.color, defaultData |-> qPen.color],
                       style |-> [data |-> defaultIndex, defaultData |-> defaultIndex],
                       width |-> [data |-> qPen.width, defaultData |-> qPen.width]])

\* PenCti.__init__: the children's data and defaultData, seeded from resetTo.
\* list.index raises ValueError for a style that is not one of the five.
PenCti_init(qPen, includeNone) ==
    LET color == AbstractCti_init(ColorCti_enforceDataType(ColorSpec(qPen.color)))
    IN  IF color.raised THEN Raised(color.exc)
        ELSE IF ~ListHas(PEN_STYLE_CONFIG_VALUES, qPen.style)
        THEN Raised("ValueError")
        ELSE LET defaultIndex == ListIndex(PEN_STYLE_CONFIG_VALUES, qPen.style)
                                 + (IF includeNone THEN 1 ELSE 0)
             IN  Returned([color |-> color.value,
                           style |-> [data |-> defaultIndex,
                                      defaultData |-> defaultIndex],
                           width |-> [data |-> qPen.width,
                                      defaultData |-> qPen.width]])

\* PenCti.configValue without `if not self.data: return None`
PenCti_configValue_alwaysPen(data, color, style, width) ==
    LET pen0 == [DefaultQPen EXCEPT !.cosmetic = TRUE]
        pen1 == [pen0 EXCEPT !.color = color]
        pen2 == IF style # None THEN [pen1 EXCEPT !.style = style] ELSE pen1
    IN  [pen2 EXCEPT !.width = width]

\* PenCti.configValue
PenCti_configValue(data, color, style, width) ==
    IF ~data THEN NonePen
    ELSE LET pen0 == [DefaultQPen EXCEPT !.cosmetic = TRUE]
             pen1 == [pen0 EXCEPT !.color = color]
             pen2 == IF style # None THEN [pen1 EXCEPT !.style = style] ELSE pen1
         IN  [pen2 EXCEPT !.width = width]

\* PenCti.createPen taking altStyle whenever it is given, whatever the style child holds
PenCti_createPen_alwaysAlt(data, color, style, width, altStyle, altWidth) ==
    LET pen == PenCti_configValue(data, color, style, width)
    IN  IF ~pen.none
        THEN LET pen1 == IF altStyle # None
                         THEN [pen EXCEPT !.style = altStyle] ELSE pen
             IN  IF width = 0 /\ altWidth # Nothing
                 THEN [pen1 EXCEPT !.width = altWidth[1]] ELSE pen1
        ELSE pen

\* PenCti.createPen
PenCti_createPen(data, color, style, width, altStyle, altWidth) ==
    LET pen == PenCti_configValue(data, color, style, width)
    IN  IF ~pen.none
        THEN LET pen1 == IF style = None /\ altStyle # None
                         THEN [pen EXCEPT !.style = altStyle] ELSE pen
             IN  IF width = 0 /\ altWidth # Nothing
                 THEN [pen1 EXCEPT !.width = altWidth[1]] ELSE pen1
        ELSE pen

---------------------------------------------------------------------------
(* The values the environment hands to a PenCti.                           *)

\* resetTo: the reference pens ("NoPen" is a Qt pen style without a config value,
\* QPen(QColor()) is a pen of an invalid colour)
ReferencePens ==
    { DefaultQPen,
      QPenOf(RedHalf, "DashDotDotLine", 0, FALSE),
      QPenOf(RGB(0, 0, 255), "NoPen", 10, FALSE),
      QPenOf(InvalidColor, "DashLine", 10, FALSE) }

PenColorInputs == { StrSpec(<<"#","0","0","f">>), StrSpec(<<"n","o">>),
                    ColorSpec(RedHalf) }
PenWidthInputs == { 0, 1, 25 }
AltStyles == { None, "DashLine", "DotLine" }
AltWidths == { Nothing, Some(0), Some(20) }

---------------------------------------------------------------------------
(* The constructor call and the actions on a PenCti.                       *)

\* PenCti('pen', defaultData, resetTo=qPen, includeNoneStyle=..., includeZeroWidth=...)
InitPen ==
    \E qPen \in ReferencePens, enabled \in BOOLEAN,
       includeNone \in BOOLEAN, includeZero \in BOOLEAN :
        LET c == PenCti_init(qPen, includeNone)
        IN  /\ cls = "PenCti"
            /\ alive = ~c.raised
            /\ err = c.exc
            /\ warned = FALSE
            /\ last = [op |-> "init", arg |-> qPen]
            /\ result = NoArg
            /\ colorData = InvalidColor /\ colorDefault = InvalidColor
            /\ edOpen = FALSE /\ edValue = NoEditor /\ subs = 0
            /\ fontData = Unused /\ fontDefault = Unused
            /\ familyIdx = 0 /\ familyDefIdx = 0
            /\ targetFont = Unused /\ setFontCalls = 0
            /\ debugging = FALSE /\ sysFamily = Unused
            /\ NoRepoTreeView
            /\ penData = enabled
            /\ penColor = IF c.raised THEN Unused ELSE c.value.color
            /\ penStyle = IF c.raised THEN Unused ELSE c.value.style
            /\ penWidth = IF c.raised THEN Unused ELSE c.value.width
            /\ includeNoneStyle = includeNone /\ includeZeroWidth = includeZero

otherThanPen == <<nodeVars, colorVars, editorVars, fontVars, envVars, repoVars>>

\* the config values of the three children
PenColorValue == penColor.data
PenStyleValue == StyleConfigValue(penStyle.data, includeNoneStyle)
PenWidthValue == penWidth.data

\* The check box: cti.data = enabled
PenSetEnabled(enabled) ==
    /\ cls = "PenCti" /\ alive
    /\ penData' = enabled
    /\ Call("setData", enabled, "none", FALSE, NoArg)
    /\ UNCHANGED <<penColor, penStyle, penWidth, includeNoneStyle, includeZeroWidth,
                   otherThanPen>>

\* cti.colorCti.data = spec
PenSetColor(spec) ==
    /\ cls = "PenCti" /\ alive
    /\ LET e == ColorCti_enforceDataType(spec)
       IN  /\ penColor' = [penColor EXCEPT !.data = AbstractCti_assign(@, e)]
           /\ Call("setColor", spec, e.exc, FALSE, NoArg)
    /\ UNCHANGED <<penData, penStyle, penWidth, includeNoneStyle, includeZeroWidth,
                   otherThanPen>>

\* cti.styleCti.data = idx
PenSetStyle(idx) ==
    /\ cls = "PenCti" /\ alive
    /\ idx \in StyleIndices(includeNoneStyle)
    /\ penStyle' = [penStyle EXCEPT !.data = idx]
    /\ Call("setStyle", idx, "none", FALSE, NoArg)
    /\ UNCHANGED <<penData, penColor, penWidth, includeNoneStyle, includeZeroWidth,
                   otherThanPen>>

\* cti.widthCti.data = width, a value of the width spin box
PenSetWidth(width) ==
    /\ cls = "PenCti" /\ alive
    /\ PenWidthMin(includeZeroWidth) <= width /\ width <= PenWidthMax
    /\ penWidth' = [penWidth EXCEPT !.data = width]
    /\ Call("setWidth", width, "none", FALSE, NoArg)
    /\ UNCHANGED <<penData, penColor, penStyle, includeNoneStyle, includeZeroWidth,
                   otherThanPen>>

\* cti.configValue
PenConfigValue ==
    /\ cls = "PenCti" /\ alive
    /\ Call("configValue", NoArg, "none", FALSE,
            PenCti_configValue(penData, PenColorValue, PenStyleValue, PenWidthValue))
    /\ UNCHANGED <<penVars, otherThanPen>>

\* cti.createPen(altStyle=altStyle, altWidth=altWidth)
PenCreatePen(altStyle, altWidth) ==
    /\ cls = "PenCti" /\ alive
    /\ Call("createPen", [altStyle |-> altStyle, altWidth |-> altWidth], "none", FALSE,
            PenCti_createPen(penData, PenColorValue, PenStyleValue, PenWidthValue,
                             altStyle, altWidth))
    /\ UNCHANGED <<penVars, otherThanPen>>

NextPen ==
    \/ \E enabled \in BOOLEAN : PenSetEnabled(enabled)
    \/ \E spec \in PenColorInputs : PenSetColor(spec)
    \/ \E idx \in StyleIndices(TRUE) : PenSetStyle(idx)
    \/ \E width \in PenWidthInputs : PenSetWidth(width)
    \/ PenConfigValue
    \/ \E altStyle \in AltStyles, altWidth \in AltWidths :
          PenCreatePen(altStyle, altWidth)

---------------------------------------------------------------------------
(* RepoTreeView (libargos/repo/repotreeview.py).  The tree has two file     *)
(* items at the top level and one child item under the first; an item is   *)
(* [hasChildren, isOpen].  The model (RepoTreeModel), its items and Qt's    *)
(* selection machinery are not part of this file: what they do on a call   *)
(* of the view is written where the view calls them.                       *)

ItemIndices == {"file1", "file2", "child"}
TopLevelIndices == {"file1", "file2"}
InvalidIndex == "invalid"                       \* QModelIndex()
ParentIndex(index) == IF index = "child" THEN "file1" ELSE InvalidIndex

RepoItem(hasChildren, isOpen) == [hasChildren |-> hasChildren, isOpen |-> isOpen]
ClosedItem(hasChildren) == RepoItem(hasChildren, FALSE)

\* currentIndex.isValid()
IsValidIndex(index) == index # InvalidIndex

\* self.model().isTopLevelIndex(index)
RepoTreeModel_isTopLevelIndex(index) == index \in TopLevelIndices

\* self.model().getItem(index): the item at a valid index; for the invalid index
\* the invisible root item, which has the top level items as children
RepoTreeModel_getItem(items, index) ==
    IF IsValidIndex(index) THEN items[index]
    ELSE RepoItem(DOMAIN items # {}, FALSE)

\* the items without the item at index and the items below it
WithoutSubtree(items, index) ==
    [i \in (DOMAIN items) \ {j \in ItemIndices : j = index \/ ParentIndex(j) = index}
        |-> items[i]]

\* the children of the item at index are fetched: an item that has children is
\* opened, and the child of the first file appears
WithChildrenFetched(items, index) ==
    IF ~items[index].hasChildren THEN items
    ELSE LET opened == [items EXCEPT ![index].isOpen = TRUE]
         IN  IF index = "file1"
             THEN [i \in DOMAIN items \cup {"child"} |->
                     IF i = "child" /\ i \notin DOMAIN items
                     THEN ClosedItem(FALSE) ELSE opened[i]]
             ELSE opened

\* RepoTreeView.updateCurrentItemActions with `currentItem.hasChildren()` for the
\* Open Item action, without `and not currentItem.isOpen`
RepoTreeView_updateCurrentItemActions_openAnyParent(items, index) ==
    LET hasCurrent == IsValidIndex(index)
        currentItem == RepoTreeModel_getItem(items, index)
    IN  [currentItemActionGroup |-> hasCurrent,
         topLevelItemActionGroup |->
             (hasCurrent /\ RepoTreeModel_isTopLevelIndex(index)),
         openItemAction |-> currentItem.hasChildren,
         closeItemAction |-> (currentItem.hasChildren /\ currentItem.isOpen)]

\* RepoTreeView.updateCurrentItemActions(currentIndex, _previousIndex): what the
\* four setEnabled calls are given
RepoTreeView_updateCurrentItemActions(items, index) ==
    LET hasCurrent == IsValidIndex(index)
        isTopLevel == hasCurrent /\ RepoTreeModel_isTopLevelIndex(index)
        currentItem == RepoTreeModel_getItem(items, index)
    IN  [currentItemActionGroup |-> hasCurrent,
         topLevelItemActionGroup |-> isTopLevel,
         openItemAction |-> (currentItem.hasChildren /\ ~currentItem.isOpen),
         closeItemAction |-> (currentItem.hasChildren /\ currentItem.isOpen)]

\* selectionModel.currentChanged is emitted with index: the connected slot
\* updateCurrentItemActions runs on the model as it is then
CurrentChanged(items, index) ==
    LET e == RepoTreeView_updateCurrentItemActions(items, index)
    IN  /\ currentIndex' = index
        /\ currentItemActionGroupEnabled' = e.currentItemActionGroup
        /\ topLevelItemActionGroupEnabled' = e.topLevelItemActionGroup
        /\ openItemActionEnabled' = e.openItemAction
        /\ closeItemActionEnabled' = e.closeItemAction

\* the index Qt makes current when the current item is removed: a remaining
\* sibling, else the parent, which is the invalid index at the top level
CurrentAfterRemoval(items, index) ==
    LET siblings == {i \in DOMAIN items :
                        i # index /\ ParentIndex(i) = ParentIndex(index)}
    IN  IF siblings # {} THEN siblings ELSE {ParentIndex(index)}

\* the repository the view is constructed on
InitialRepos ==
    { [i \in {} |-> ClosedItem(FALSE)],
      [i \in {"file1"} |-> ClosedItem(TRUE)],
      [i \in {"file1", "file2"} |-> ClosedItem(i = "file1")] }

\* RepoTreeView(repoTreeModel, collector): the actions and the action groups are
\* created enabled (Qt's default), no item is current yet
InitRepo ==
    \E items \in InitialRepos :
        /\ cls = "RepoTreeView" /\ alive = TRUE
        /\ err = "none" /\ warned = FALSE
        /\ last = [op |-> "init", arg |-> NoArg]
        /\ result = NoArg
        /\ colorData = InvalidColor /\ colorDefault = InvalidColor
        /\ edOpen = FALSE /\ edValue = NoEditor /\ subs = 0
        /\ fontData = Unused /\ fontDefault = Unused
        /\ familyIdx = 0 /\ familyDefIdx = 0
        /\ targetFont = Unused /\ setFontCalls = 0
        /\ debugging = FALSE /\ sysFamily = Unused
        /\ penData = FALSE /\ penColor = Unused /\ penStyle = Unused
        /\ penWidth = Unused
        /\ includeNoneStyle = FALSE /\ includeZeroWidth = FALSE
        /\ repoItems = items
        /\ currentIndex = InvalidIndex
        /\ currentItemActionGroupEnabled = TRUE
        /\ topLevelItemActionGroupEnabled = TRUE
        /\ openItemActionEnabled = TRUE
        /\ closeItemActionEnabled = TRUE

otherThanRepo == <<cls, colorVars, editorVars, fontVars, envVars, penVars>>
actionVars == <<currentItemActionGroupEnabled, topLevelItemActionGroupEnabled,
                openItemActionEnabled, closeItemActionEnabled>>

\* A file is added to the repository (by the main window, not through the view)
RepoInsertFile(index, hasChildren) ==
    /\ cls = "RepoTreeView" /\ alive
    /\ index \in TopLevelIndices \ DOMAIN repoItems
    /\ repoItems' = [i \in DOMAIN repoItems \cup {index} |->
                        IF i = index THEN ClosedItem(hasChildren) ELSE repoItems[i]]
    /\ Call("insertFile", index, "none", FALSE, NoArg)
    /\ UNCHANGED <<alive, currentIndex, actionVars, otherThanRepo>>

\* The user makes another item the current one: currentChanged is emitted
RepoSetCurrent(index) ==
    /\ cls = "RepoTreeView" /\ alive
    /\ index \in DOMAIN repoItems /\ index # currentIndex
    /\ CurrentChanged(repoItems, index)
    /\ Call("currentChanged", index, "none", FALSE, NoArg)
    /\ UNCHANGED <<alive, repoItems, otherThanRepo>>

\* RepoTreeView.openCurrentItem: expanding the item fetches its children
RepoOpenCurrentItem ==
    /\ cls = "RepoTreeView" /\ alive
    /\ repoItems' = IF IsValidIndex(currentIndex)
                    THEN WithChildrenFetched(repoItems, currentIndex)
                    ELSE repoItems
    /\ Call("openCurrentItem", currentIndex, "none", FALSE, NoArg)
    /\ UNCHANGED <<alive, currentIndex, actionVars, otherThanRepo>>

\* RepoTreeView.closeCurrentItem: the children are removed, the item is closed
RepoCloseCurrentItem ==
    /\ cls = "RepoTreeView" /\ alive
    /\ repoItems' =
          IF IsValidIndex(currentIndex)
          THEN LET kept == {i \in DOMAIN repoItems : ParentIndex(i) # currentIndex}
               IN  [i \in kept |-> IF i = currentIndex
                                   THEN [repoItems[i] EXCEPT !.isOpen = FALSE]
                                   ELSE repoItems[i]]
          ELSE repoItems
    /\ Call("closeCurrentItem", currentIndex, "none", FALSE, NoArg)
    /\ UNCHANGED <<alive, currentIndex, actionVars, otherThanRepo>>

\* RepoTreeView.removeCurrentItem: the item and the items below it are deleted;
\* the deletion makes another index the current one
RepoRemoveCurrentItem ==
    /\ cls = "RepoTreeView" /\ alive
    /\ IF IsValidIndex(currentIndex)
       THEN \E next \in CurrentAfterRemoval(repoItems, currentIndex) :
               /\ repoItems' = WithoutSubtree(repoItems, currentIndex)
               /\ CurrentChanged(repoItems', next)
       ELSE UNCHANGED <<repoItems, currentIndex, actionVars>>
    /\ Call("removeCurrentItem", currentIndex, "none", FALSE, NoArg)
    /\ UNCHANGED <<alive, otherThanRepo>>

\* RepoTreeView.reloadFileOfCurrentItem: the file item of the current item is
\* replaced by a new, closed one, expanded if the old one was, and made current
RepoReloadFileOfCurrentItem ==
    /\ cls = "RepoTreeView" /\ alive
    /\ IF IsValidIndex(currentIndex)
       THEN LET fileRtiIndex == IF RepoTreeModel_isTopLevelIndex(currentIndex)
                                THEN currentIndex ELSE ParentIndex(currentIndex)
                isExpanded == repoItems[fileRtiIndex].isOpen
                others == WithoutSubtree(repoItems, fileRtiIndex)
                reloaded == [i \in DOMAIN others \cup {fileRtiIndex} |->
                               IF i = fileRtiIndex
                               THEN ClosedItem(repoItems[i].hasChildren)
                               ELSE others[i]]
            IN  /\ repoItems' = IF isExpanded
                                THEN WithChildrenFetched(reloaded, fileRtiIndex)
                                ELSE reloaded
                /\ CurrentChanged(repoItems', fileRtiIndex)
       ELSE UNCHANGED <<repoItems, currentIndex, actionVars>>
    /\ Call("reloadFileOfCurrentItem", currentIndex, "none", FALSE, NoArg)
    /\ UNCHANGED <<alive, otherThanRepo>>

\* RepoTreeView.finalize: the slots are disconnected, the view is closed
RepoFinalize ==
    /\ cls = "RepoTreeView" /\ alive
    /\ alive' = FALSE
    /\ Call("finalize", NoArg, "none", FALSE, NoArg)
    /\ UNCHANGED <<repoVars, otherThanRepo>>

NextRepo ==
    \/ \E index \in TopLevelIndices, hasChildren \in BOOLEAN :
          RepoInsertFile(index, hasChildren)
    \/ \E index \in ItemIndices : RepoSetCurrent(index)
    \/ RepoOpenCurrentItem
    \/ RepoCloseCurrentItem
    \/ RepoRemoveCurrentItem
    \/ RepoReloadFileOfCurrentItem
    \/ RepoFinalize

---------------------------------------------------------------------------
(* The specifications: of any object, and of an object of one class.       *)

Init == InitColor \/ InitFont \/ InitPen \/ InitRepo
Next == NextColor \/ NextFont \/ NextPen \/ NextRepo
Spec == Init /\ [][Next]_vars

SpecColor == InitColor /\ [][NextColor]_vars
SpecFont == InitFont /\ [][NextFont]_vars
SpecPen == InitPen /\ [][NextPen]_vars
SpecRepo == InitRepo /\ [][NextRepo]_vars

---------------------------------------------------------------------------
(* Claims about PenCti, checked under SpecPen.                             *)

\* C1: PenCti.configValue is None when the pen is disabled, whatever the children
\* hold; when it is enabled it is a pen marked cosmetic with the colour child's
\* colour, the width child's width, and the style child's style unless that is the
\* 'none' sentinel.
C1_ConfigValue ==
    (cls = "PenCti" /\ alive /\ last.op = "configValue") =>
        IF ~penData
        THEN result.none
        ELSE /\ ~result.none
             /\ result.cosmetic
             /\ result.color = PenColorValue
             /\ result.width = PenWidthValue
             /\ (PenStyleValue # None => result.style = PenStyleValue)

\* C1's case: configValue of an enabled pen whose children were all changed, and
\* whose style is a real style
C1_Witness ==
    /\ cls = "PenCti" /\ alive /\ last.op = "configValue"
    /\ penData /\ includeNoneStyle
    /\ PenColorValue = RGB(0, 0, 255) /\ PenColorValue # penColor.defaultData
    /\ PenStyleValue = "DotLine" /\ penStyle.data # penStyle.defaultData
    /\ PenWidthValue = 25 /\ penWidth.data # penWidth.defaultData
    /\ result = QPenOf(RGB(0, 0, 255), "DotLine", 25, TRUE)

\* C2 as stated: on an enabled pen createPen(altStyle=X, altWidth=W) returns style X
\* when the style child is the 'none' sentinel, width W when the width child is
\* exactly 0.0, otherwise the configured style and width; the colour is the colour
\* child's.
C2_AsStated ==
    (cls = "PenCti" /\ alive /\ last.op = "createPen" /\ penData) =>
        /\ ~result.none
        /\ result.color = PenColorValue
        /\ IF PenStyleValue = None THEN result.style = last.arg.altStyle
                                     ELSE result.style = PenStyleValue
        /\ IF PenWidthValue = 0 THEN Some(result.width) = last.arg.altWidth
                                ELSE result.width = PenWidthValue

\* C2 as amended: the alternatives are taken only when they are given. With
\* altStyle None a pen whose style child is the sentinel keeps QPen's default solid
\* style, and with altWidth None a pen whose width child is 0.0 keeps width 0.0.
C2_CreatePen ==
    (cls = "PenCti" /\ alive /\ last.op = "createPen" /\ penData) =>
        /\ ~result.none
        /\ result.color = PenColorValue
        /\ result.style =
              IF PenStyleValue # None THEN PenStyleValue
              ELSE IF last.arg.altStyle # None THEN last.arg.altStyle
              ELSE "SolidLine"
        /\ result.width =
              IF PenWidthValue # 0 THEN PenWidthValue
              ELSE IF last.arg.altWidth # Nothing THEN last.arg.altWidth[1]
              ELSE 0

\* C2's case: the sentinel style and width 0.0, both alternatives given and taken
C2_Witness ==
    /\ cls = "PenCti" /\ alive /\ last.op = "createPen" /\ penData
    /\ PenStyleValue = None /\ PenWidthValue = 0
    /\ last.arg = [altStyle |-> "DashLine", altWidth |-> Some(20)]
    /\ result.style = "DashLine" /\ result.width = 20

---------------------------------------------------------------------------
(* Claims about ColorCti and the text of its editor, checked under         *)
(* SpecColor.                                                              *)

\* the calls that hand a colour specification to the item, and the colour it denotes
ColorCallDenotes(call) ==
    IF call.op = "load" THEN QColorFromString(call.arg["data"]) ELSE QColor(call.arg)
IsColorAssignment(call) ==
    \/ call.op \in {"setData", "setDefaultData"}
    \/ call.op = "load" /\ "data" \in DOMAIN call.arg

\* C3: an invalid colour specification makes the constructor, the assignment to
\* data or defaultData, and _nodeSetValuesFromDict fail with ValueError (the spec's
\* InvalidValueError), and the item's data and defaultData stay what they were.
C3_InvalidColorRejected ==
    /\ []((cls = "ColorCti" /\ last.op = "init" /\ ~QColor(last.arg).valid)
            => (~alive /\ err = "ValueError"))
    /\ [][(cls = "ColorCti" /\ IsColorAssignment(last')
             /\ ~ColorCallDenotes(last').valid)
            => /\ err' = "ValueError"
               /\ colorData' = colorData
               /\ colorDefault' = colorDefault]_vars

\* C3's case: an invalid specification was assigned to an item holding a colour
\* that is not its default; the call raised and the colour is still there
C3_Witness ==
    /\ cls = "ColorCti" /\ alive
    /\ last.op = "setData" /\ last.arg = StrSpec(<<"#","G","G","0","0","0","0">>)
    /\ err = "ValueError"
    /\ colorData = RedHalf /\ colorDefault = RGB(0, 0, 255)

\* Loading dct into a fresh ColorCti whose default is defaultData
FreshColorLoad(defaultData, dct) ==
    LET fresh == AbstractCti_init(ColorCti_enforceDataType(ColorSpec(defaultData)))
    IN  ColorCti_nodeSetValuesFromDict(fresh.value.data, dct)

\* C4: a ColorCti holding a valid colour c that differs from its default, saved with
\* _nodeGetNonDefaultsDict and loaded with _nodeSetValuesFromDict into a fresh
\* ColorCti with the same default, yields data equal to c, also when c is not opaque.
C4_RoundTrip ==
    (cls = "ColorCti" /\ alive /\ last.op = "save" /\ colorData # colorDefault) =>
        LET loaded == FreshColorLoad(colorDefault, result)
        IN  ~loaded.raised /\ loaded.value = colorData

\* What holds of the code instead: the round trip keeps the red, green and blue
\* channels and makes the colour opaque
C4_RoundTripOpaque ==
    (cls = "ColorCti" /\ alive /\ last.op = "save" /\ colorData # colorDefault) =>
        LET loaded == FreshColorLoad(colorDefault, result)
        IN  ~loaded.raised /\ loaded.value = [colorData EXCEPT !.a = 255]

\* a complete six-hex-digit value, with or without the leading '#'
SixHexDigits(text) ==
    IF Len(text) = 7 /\ text[1] = "#" THEN SubSeq(text, 2, 7) ELSE text
IsSixHexText(text) ==
    /\ Len(SixHexDigits(text)) = 6
    /\ \A i \in 1..6 : IsHexChar(SixHexDigits(text)[i])
SixHexColor(text) ==
    LET d == SixHexDigits(text)
        byte(i) == 16 * HexValue(d[i]) + HexValue(d[i + 1])
    IN  RGB(byte(1), byte(3), byte(5))

\* C8: ColorCtiEditor.getData returns the colour of a complete six-hex-digit text
\* and raises InvalidInputError for every other text, and it leaves the item's data
\* alone.
C8_GetData ==
    /\ []((cls = "ColorCti" /\ last.op = "getData") =>
            IF IsSixHexText(last.arg)
            THEN err = "none" /\ result = SixHexColor(last.arg)
            ELSE err = "InvalidInputError" /\ result = NoArg)
    /\ [][(cls = "ColorCti" /\ last'.op = "getData")
            => (colorData' = colorData /\ colorDefault' = colorDefault)]_vars

\* C8's case: getData on six lower case digits without '#', on an item holding
\* another colour
C8_Witness ==
    /\ cls = "ColorCti" /\ edOpen /\ last.op = "getData"
    /\ last.arg = <<"0","0","f","f","0","0">>
    /\ err = "none" /\ result = RGB(0, 255, 0)
    /\ colorData = RedHalf

---------------------------------------------------------------------------
(* Claims about FontCti, checked under SpecFont.                           *)

\* a 'data' string that QFont.fromString cannot parse was handed to the item
IsUnparsableFontLoad(call) ==
    /\ call.op = "load"
    /\ "data" \in DOMAIN call.arg
    /\ ~QFontFromString(DefaultQFont(sysFamily), call.arg["data"]).success

\* C5: _nodeSetValuesFromDict with a 'data' string that is no font: in strict mode
\* (DEBUGGING) it raises ValueError and the data is unchanged; outside strict mode it
\* logs a warning, does not raise, and the data is what it was before the call.
C5_AsStated ==
    [][(cls = "FontCti" /\ IsUnparsableFontLoad(last')) =>
          /\ IF debugging THEN err' = "ValueError"
                          ELSE err' = "none" /\ warned'
          /\ fontData' = fontData]_vars

\* What the code does instead outside strict mode: the item's data becomes QFont(),
\* the application's default font, and the family child follows it
C5_AsCoded ==
    [][(cls = "FontCti" /\ IsUnparsableFontLoad(last')) =>
          /\ warned'
          /\ IF debugging
             THEN err' = "ValueError" /\ fontData' = fontData /\ familyIdx' = familyIdx
             ELSE /\ err' = "none"
                  /\ fontData' = DefaultQFont(sysFamily)
                  /\ familyIdx' = FontCti_familyIndex(sysFamily).idx]_vars

\* the position of a family in the option list of the family child: where it is by
\* exact match, and where the empty choice is otherwise
ExpectedFamilyIndex(family) ==
    IF \E i \in FamilyIndices : FamilyConfigValue(i) = family
    THEN CHOOSE i \in FamilyIndices : FamilyConfigValue(i) = family
    ELSE CHOOSE i \in FamilyIndices : FamilyConfigValue(i) = ""

\* C6: after every assignment to FontCti.data the family child's index is the
\* position of the font's family, or of the empty choice for an unknown family, and
\* the assignment does not raise; the same for defaultData and the child's
\* defaultData; the assignments made by the constructor included.
C6_AsStated ==
    cls = "FontCti" =>
        /\ last.op \in {"init", "setData"} =>
              (err = "none" /\ familyIdx = ExpectedFamilyIndex(fontData.family))
        /\ last.op \in {"init", "setDefaultData"} =>
              (err = "none" /\ familyDefIdx = ExpectedFamilyIndex(fontDefault.family))

\* What holds of the code: the same, of the two setters only
C6_SettersOnly ==
    cls = "FontCti" =>
        /\ last.op = "setData" =>
              (err = "none" /\ familyIdx = ExpectedFamilyIndex(fontData.family))
        /\ last.op = "setDefaultData" =>
              (err = "none" /\ familyDefIdx = ExpectedFamilyIndex(fontDefault.family))

\* C7: _updateTargetFromNode hands the target a font whose attributes other than
\* the family are those of the item's data, whose family is the family child's
\* selection, or the system default family when the selection is the empty choice;
\* setFont is called exactly once.
C7_TargetSync ==
    [][(cls = "FontCti" /\ last'.op = "sync") =>
          /\ targetFont'.pointSize = fontData.pointSize
          /\ targetFont'.weight = fontData.weight
          /\ targetFont'.family =
                (IF FamilyConfigValue(familyIdx) # ""
                 THEN FamilyConfigValue(familyIdx) ELSE sysFamily)
          /\ setFontCalls' = 1]_vars

\* C7's case: a sync of an item whose family child is at the empty choice and
\* whose font is not the default font: the target got the font's size and weight
\* and the system default family
C7_Witness ==
    /\ cls = "FontCti" /\ last.op = "sync"
    /\ familyIdx = 0 /\ sysFamily = "Sans"
    /\ targetFont = QFontOf("Sans", 12, 75)
    /\ fontDefault = QFontOf("Zapf", 9, 50)
    /\ setFontCalls = 1

---------------------------------------------------------------------------
(* Claims about the editors of ColorCti and FontCti, checked under Spec.   *)

HasEditor == cls \in {"ColorCti", "FontCti"}

\* C9: the connection of the pick button's clicked signal made when the editor
\* opens is released on every way out of the session (commit, cancel, close, and
\* the commit made by the pick handler): a closed session has no connection left,
\* and the pick handler runs only on an open editor.
C9_SubscriptionReleased ==
    /\ [](HasEditor => subs = (IF edOpen THEN 1 ELSE 0))
    /\ [][(HasEditor /\ last'.op = "pick") => edOpen]_vars

\* C9's case: the session of a FontCti ended by the commit of its pick handler
C9_Witness ==
    /\ cls = "FontCti" /\ last.op = "pick" /\ last.arg.ok
    /\ ~edOpen /\ subs = 0

\* C10: a pick whose dialog is accepted puts the chosen value in the editor and
\* commits that value to the item; a pick whose dialog is dismissed leaves the
\* value the editor holds and the item's data what they were.
C10_Pick ==
    [][(HasEditor /\ last'.op = "pick") =>
          IF cls = "ColorCti"
          THEN IF last'.arg.chosen.valid
               THEN /\ QColorFromString(result') = last'.arg.chosen
                    /\ colorData' = last'.arg.chosen
               ELSE /\ result' = edValue /\ edValue' = edValue
                    /\ colorData' = colorData
          ELSE IF last'.arg.ok
               THEN /\ result' = last'.arg.font
                    /\ fontData' = last'.arg.font
               ELSE /\ result' = edValue
                    /\ fontData' = fontData]_vars

\* C10's case: the colour dialog, opened on a text that is no colour, was accepted
\* with a colour that the item did not hold
C10_Witness ==
    /\ cls = "ColorCti" /\ last.op = "pick"
    /\ last.arg = [seed |-> RedHalf, chosen |-> RGB(18, 171, 239)]
    /\ result = <<"#","1","2","A","B","E","F">>
    /\ colorData = RGB(18, 171, 239)
    /\ colorDefault = RGB(0, 0, 255)

---------------------------------------------------------------------------
(* Claims about the construction of a PenCti, checked under SpecPen.       *)

\* the children's defaultData are those of the reference pen qPen
PenDefaultsSeededFrom(qPen) ==
    /\ penColor.defaultData = qPen.color
    /\ penWidth.defaultData = qPen.width
    /\ penStyle.defaultData \in StyleIndices(includeNoneStyle)
    /\ StyleConfigValue(penStyle.defaultData, includeNoneStyle) = qPen.style
    /\ StyleConfigValue(penStyle.defaultData, includeNoneStyle) # None
    /\ penStyle.defaultData = ListIndex(PEN_STYLE_CONFIG_VALUES, qPen.style)
                              + (IF includeNoneStyle THEN 1 ELSE 0)

\* C11: for every reference pen and both values of includeNoneStyle the constructed
\* PenCti has a colour child whose defaultData is the pen's colour, a width child
\* whose defaultData is the pen's width, and a style child whose defaultData is the
\* index of the pen's line style, shifted by one behind the sentinel.
C11_AsStated ==
    (cls = "PenCti" /\ last.op = "init") =>
        (alive /\ err = "none" /\ PenDefaultsSeededFrom(last.arg))

\* C11, amended: the same of every reference pen whose colour is valid and whose
\* line style is one of PEN_STYLE_CONFIG_VALUES; for any other reference pen the
\* constructor raises ValueError
C11_ListedStyles ==
    (cls = "PenCti" /\ last.op = "init") =>
        IF last.arg.color.valid /\ ListHas(PEN_STYLE_CONFIG_VALUES, last.arg.style)
        THEN alive /\ err = "none" /\ PenDefaultsSeededFrom(last.arg)
        ELSE ~alive /\ err = "ValueError"

\* C11's case: a PenCti built with the sentinel from a red, half transparent
\* dash-dot-dot pen of width 0.0: the style child's default is the shifted index
C11_Witness ==
    /\ cls = "PenCti" /\ alive /\ last.op = "init"
    /\ last.arg = QPenOf(RedHalf, "DashDotDotLine", 0, FALSE)
    /\ includeNoneStyle
    /\ penStyle.defaultData = 5
    /\ penColor.defaultData = RedHalf
    /\ penWidth.defaultData = 0

---------------------------------------------------------------------------
(* Claims about what ColorCti and FontCti save and load, checked under     *)
(* Spec.                                                                   *)

\* the item is a ColorCti or a FontCti whose data is its defaultData
AtDefault ==
    IF cls = "ColorCti" THEN colorData = colorDefault ELSE fontData = fontDefault

\* C12: after any sequence of assignments to data and defaultData, the dictionary
\* of _nodeGetNonDefaultsDict of a ColorCti or a FontCti has a 'data' entry if and
\* only if the item's data differs from its defaultData, and is the empty
\* dictionary for an item at its defaults.
C12_NonDefaultsOnly ==
    (HasEditor /\ alive /\ last.op = "save") =>
        /\ ("data" \in DOMAIN result) <=> ~AtDefault
        /\ AtDefault => result = EmptyDict
        /\ DOMAIN result \subseteq {"data"}

\* C12's case: a FontCti whose data and defaultData were both assigned and differ
C12_Witness ==
    /\ cls = "FontCti" /\ last.op = "save"
    /\ fontData = QFontOf("Arial", 12, 75)
    /\ fontDefault = QFontOf("Zapf", 9, 50)
    /\ DOMAIN result = {"data"}

\* text has the form '#RRGGBB' with upper case hex digits
IsCanonicalUpperHex(text) ==
    /\ Len(text) = 7
    /\ text[1] = "#"
    /\ \A i \in 2..7 : IsHexChar(text[i]) /\ ~IsLower(text[i])

\* C13: whenever _nodeGetNonDefaultsDict of a ColorCti emits a 'data' entry, the
\* entry is the colour's hex string '#RRGGBB' with upper case hex digits, the form
\* that _dataToString gives the display value.
C13_AsStated ==
    (cls = "ColorCti" /\ alive /\ last.op = "save" /\ "data" \in DOMAIN result) =>
        /\ IsCanonicalUpperHex(result["data"])
        /\ result["data"] = ColorCti_dataToString(colorData)

\* What the code emits instead: QColor.name() as it is, '#rrggbb' in lower case,
\* which is the display value up to the case of its letters
C13_LowerCase ==
    (cls = "ColorCti" /\ alive /\ last.op = "save" /\ "data" \in DOMAIN result) =>
        /\ result["data"] = Lower(ColorCti_dataToString(colorData))
        /\ Upper(result["data"]) = ColorCti_dataToString(colorData)
        /\ IsCanonicalUpperHex(ColorCti_dataToString(colorData))

\* C14: _nodeSetValuesFromDict of a ColorCti or a FontCti with a dictionary that
\* has no 'data' key leaves the item's data and defaultData, and the selection of a
\* FontCti's family child, unchanged, whatever other keys the dictionary has.
C14_NoDataKey ==
    [][(HasEditor /\ last'.op = "load" /\ "data" \notin DOMAIN last'.arg) =>
          /\ err' = "none" /\ ~warned'
          /\ UNCHANGED <<colorData, colorDefault>>
          /\ UNCHANGED <<fontData, fontDefault, familyIdx, familyDefIdx>>]_vars

\* C14's case: a dictionary with another key only was loaded into a FontCti whose
\* data is not its default and whose family child was set to another family than
\* the font's
C14_Witness ==
    /\ cls = "FontCti" /\ last.op = "load"
    /\ DOMAIN last.arg = {"expanded"}
    /\ fontData = QFontOf("Arial", 12, 75)
    /\ fontDefault = QFontOf("Zapf", 9, 50)
    /\ FamilyConfigValue(familyIdx) = "Courier"

---------------------------------------------------------------------------
(* Claims about RepoTreeView, checked under SpecRepo.                      *)

\* the call made another index the current one, so that currentChanged was emitted
\* and updateCurrentItemActions ran
CurrentItemChangedBy(call) ==
    \/ call.op = "currentChanged"
    \/ /\ call.op \in {"removeCurrentItem", "reloadFileOfCurrentItem"}
       /\ IsValidIndex(call.arg)

---------------------------------------------------------------------------
(* Claims about the target sync of a FontCti, checked under SpecFont.      *)

\* C16: _updateTargetFromNode, whatever the family child selects, changes neither
\* the item's data nor its defaultData, and _nodeGetNonDefaultsDict gives the same
\* dictionary after the sync as before it.
C16_AsStated ==
    [][(cls = "FontCti" /\ last'.op = "sync") =>
          /\ fontData' = fontData
          /\ fontDefault' = fontDefault
          /\ FontCti_nodeGetNonDefaultsDict(fontData', fontDefault')
                = FontCti_nodeGetNonDefaultsDict(fontData, fontDefault)]_vars

\* What the code does instead: the font handed to the target is the item's own
\* data, whose family the sync has set to the family it hands to the target
C16_InPlace ==
    [][(cls = "FontCti" /\ last'.op = "sync") =>
          /\ fontData' = targetFont'
          /\ fontData' = [fontData EXCEPT !.family = targetFont'.family]]_vars

=============================================================================
